---- MODULE Spec2Model ----
(***************************************************************************)
(* Kanban board backend (backend/server.py): the boards and tasks          *)
(* collections of the document store, and the HTTP handlers that read and  *)
(* write them.  Every "await db.<collection>.<call>" of a handler is one   *)
(* atomic step; handlers of different requests interleave between steps.   *)
(***************************************************************************)
EXTENDS Integers, Sequences, FiniteSets, TLC

\* ------------------------------------------------------------------ bounds
MaxBoards == 2      \* board ids (uuid4 values) the model hands out
MaxTasks == 2       \* task ids (uuid4 values) the model hands out
NReq == 2           \* requests that can be in flight at once
MaxClock == 1       \* readings of datetime.now(timezone.utc): 0..MaxClock

Requests == 1..NReq
BoardIds == 1..MaxBoards
TaskIds == 1..MaxTasks

\* ------------------------------------------------------------- value types
\* Python None
None == <<>>

\* Optional[x] of a request body or query string: None, or a value
Some(v) == <<v>>

TaskPriority == {"low", "medium", "high"}
TaskColumn == {"todo", "in_progress", "done"}

\* a datetime (an instant, as a clock reading) and its ISO-8601 string
Datetime(n) == [dt |-> n]
isoformat(d) == [iso |-> d.dt]
fromisoformat(s) == [dt |-> s.iso]

IsDatetime(v) == DOMAIN v = {"dt"}
IsIsoStr(v) == DOMAIN v = {"iso"}

\* the keys whose values are datetimes in the models, and ISO strings in
\* the store (the other keys hold plain strings)
TimestampKeys == {"created_at", "updated_at", "due_date"}

prepare_for_mongo(data) ==
    [k \in DOMAIN data |->
        IF k \in TimestampKeys /\ IsDatetime(data[k])
        THEN isoformat(data[k]) ELSE data[k]]

parse_from_mongo(item) ==
    [k \in DOMAIN item |->
        IF k \in TimestampKeys /\ IsIsoStr(item[k])
        THEN fromisoformat(item[k]) ELSE item[k]]

\* ------------------------------------------------------------------- state
VARIABLES
    boards,       \* db.boards: the stored board documents
    tasks,        \* db.tasks: the stored task documents
    req,          \* per request slot: the handler (op), its position (pc),
                  \* its path parameters, the document its existence check
                  \* found, its body (arg), update_data, the ids delete_many
                  \* removed (its DeleteResult), the matched_count of its
                  \* update_one (its UpdateResult), and the response
    clock,        \* the wall clock read by datetime.now
    next_board,   \* the next fresh board id (uuid4)
    next_task,    \* the next fresh task id (uuid4)
    last_writer   \* history: per collection and document id, the request
                  \* whose update_one call ran last (0: none yet)

vars == <<boards, tasks, req, clock, next_board, next_task, last_writer>>

store == <<boards, tasks>>

Idle ==
    [op |-> "idle", pc |-> "idle", board_id |-> 0, task_id |-> 0,
     found |-> None, arg |-> None, update_data |-> None, deleted |-> {},
     matched |-> 0, resp |-> None]

Init ==
    /\ boards = {}
    /\ tasks = {}
    /\ req = [r \in Requests |-> Idle]
    /\ clock = 0
    /\ next_board = 1
    /\ next_task = 1
    /\ last_writer = [boards |-> [b \in BoardIds |-> 0],
                      tasks |-> [t \in TaskIds |-> 0]]

\* ------------------------------------------------------ document store calls
\* collection.find_one({"id": id})
find_one(coll, id) ==
    IF \E d \in coll : d.id = id THEN CHOOSE d \in coll : d.id = id ELSE None

Matches(d, query) == \A k \in DOMAIN query : d[k] = query[k]

\* collection.find(query).to_list(length=None)
find(coll, query) == {d \in coll : Matches(d, query)}

\* collection.insert_one(doc)
insert_one(coll, doc) == coll \cup {doc}

\* {"$set": update_data} applied to one document
SetFields(d, update_data) ==
    [k \in DOMAIN d \cup DOMAIN update_data |->
        IF k \in DOMAIN update_data THEN update_data[k] ELSE d[k]]

\* an update_one with upsert=True: with no match the document is inserted
update_one_upsert(coll, id, update_data) ==
    IF find_one(coll, id) = None
    THEN coll \cup {SetFields([id |-> id], update_data)}
    ELSE (coll \ {find_one(coll, id)})
            \cup {SetFields(find_one(coll, id), update_data)}

\* collection.update_one({"id": id}, {"$set": update_data}): the matching
\* document is changed in place; with no match the call changes nothing
update_one(coll, id, update_data) ==
    IF find_one(coll, id) = None THEN coll
    ELSE (coll \ {find_one(coll, id)})
            \cup {SetFields(find_one(coll, id), update_data)}

\* UpdateResult.matched_count of that call
matched_count(coll, id) == IF find_one(coll, id) = None THEN 0 ELSE 1

\* a delete that ignores its query: every document goes
delete_many_all(coll, query) == {}

\* a delete that stops at the first matching document
delete_many_first(coll, query) ==
    IF \E d \in coll : Matches(d, query)
    THEN coll \ {CHOOSE d \in coll : Matches(d, query)} ELSE coll

\* collection.delete_many(query)
delete_many(coll, query) == {d \in coll : ~Matches(d, query)}

\* collection.delete_one({"id": id})
delete_one(coll, id) == coll \ {find_one(coll, id)}

\* ---------------------------------------------------------------- responses
Ok(body) == [status |-> 200, body |-> body]
NotFound(detail) == [status |-> 404, body |-> [detail |-> detail]]
\* an exception no handler catches: the framework answers 500
ServerError == [status |-> 500, body |-> [detail |-> "Internal Server Error"]]

\* Board(**parse_from_mongo(doc)) / Task(**parse_from_mongo(doc)): a document
\* is a mapping; None is not, and ** of None raises TypeError
ModelResponse(doc) == IF doc = None THEN ServerError ELSE Ok(parse_from_mongo(doc))

InFlight(r) == req[r].pc \notin {"idle", "done"}

Begin(r, op, b, t, doc) ==
    [Idle EXCEPT !.op = op, !.pc = "found", !.board_id = b, !.task_id = t,
                 !.found = doc]
Reply(r, resp) == [req EXCEPT ![r].pc = "done", ![r].resp = resp]
Reject(r, op, b, t, resp) ==
    [req EXCEPT ![r] = [Idle EXCEPT !.op = op, !.pc = "done", !.board_id = b,
                                    !.task_id = t, !.resp = resp]]

\* the response has been sent: the slot is free for the next request
Finish(r) ==
    /\ req[r].pc = "done"
    /\ req' = [req EXCEPT ![r] = Idle]
    /\ UNCHANGED <<boards, tasks, clock, next_board, next_task, last_writer>>

\* time passes
Tick ==
    /\ clock < MaxClock
    /\ clock' = clock + 1
    /\ UNCHANGED <<boards, tasks, req, next_board, next_task, last_writer>>

\* --------------------------------------------------------- request bodies
\* a body whose description defaults to "" as in the create bodies, so that
\* an update without description carries an empty one
NonNullDefaults(body) ==
    [k \in {x \in DOMAIN body : body[x] # None \/ x = "description"} |->
        IF body[k] = None THEN "" ELSE body[k][1]]

\* model.dict() of a partial-update body, comprehended over "v is not None"
NonNull(body) == [k \in {x \in DOMAIN body : body[x] # None} |-> body[k][1]]

WithKey(d, key, v) == [k \in DOMAIN d \cup {key} |-> IF k = key THEN v ELSE d[k]]

\* update_data of update_board / update_task: the supplied fields, then
\* updated_at, then the datetimes as ISO strings
UpdateData(body, now) ==
    prepare_for_mongo(WithKey(NonNull(body), "updated_at", now))

\* update_data of move_task
MoveData(move_data, now) ==
    prepare_for_mongo([column |-> move_data.column, updated_at |-> now])

\* Board(**board_data.dict()): id, created_at and updated_at by default factory
NewBoard(board_data, id, now) ==
    [id |-> id, name |-> board_data.name, description |-> board_data.description,
     created_at |-> now, updated_at |-> now]

\* Task(board_id=board_id, **task_data.dict()): column by default; due_date
\* is None or a datetime
NewTask(board_id, task_data, id, now) ==
    [id |-> id, board_id |-> board_id, title |-> task_data.title,
     description |-> task_data.description, priority |-> task_data.priority,
     column |-> "todo", due_date |-> task_data.due_date,
     created_at |-> now, updated_at |-> now]

\* a query parameter that is set: "if priority:" / "if column:"
Truthy(param) == param # None /\ param[1] # ""

\* a filter built with "elif column:": column is dropped when priority is set
FilterQueryElif(board_id, priority, column) ==
    [k \in {"board_id"} \cup (IF Truthy(priority) THEN {"priority"} ELSE {})
                        \cup (IF ~Truthy(priority) /\ Truthy(column)
                              THEN {"column"} ELSE {}) |->
        CASE k = "board_id" -> board_id
          [] k = "priority" -> priority[1]
          [] k = "column" -> column[1]]

\* filter_query of get_board_tasks
FilterQuery(board_id, priority, column) ==
    [k \in {"board_id"} \cup (IF Truthy(priority) THEN {"priority"} ELSE {})
                        \cup (IF Truthy(column) THEN {"column"} ELSE {}) |->
        CASE k = "board_id" -> board_id
          [] k = "priority" -> priority[1]
          [] k = "column" -> column[1]]

\* ------------------------------------------------------------ board routes
\* POST /boards
create_board(r, board_data) ==
    /\ req[r].pc = "idle"
    /\ next_board <= MaxBoards
    /\ LET board == NewBoard(board_data, next_board, Datetime(clock)) IN
        /\ boards' = insert_one(boards, prepare_for_mongo(board))
        /\ req' = Reject(r, "create_board", next_board, 0, Ok(board))
    /\ next_board' = next_board + 1
    /\ UNCHANGED <<tasks, clock, next_task, last_writer>>

\* the response get_board gives in the current store
get_board_response(board_id) ==
    IF find_one(boards, board_id) = None THEN NotFound("Board not found")
    ELSE Ok(parse_from_mongo(find_one(boards, board_id)))

\* GET /boards/{board_id}
get_board(r, board_id) ==
    /\ req[r].pc = "idle"
    /\ req' = Reject(r, "get_board", board_id, 0, get_board_response(board_id))
    /\ UNCHANGED <<boards, tasks, clock, next_board, next_task, last_writer>>

\* an existence check that lets a missing board through
board_find_unchecked(r, op, board_id) ==
    /\ req[r].pc = "idle"
    /\ req' = [req EXCEPT ![r] = Begin(r, op, board_id, 0,
                                       find_one(boards, board_id))]

\* the existence check every handler on a board starts with
board_find(r, op, board_id) ==
    /\ req[r].pc = "idle"
    /\ req' = IF find_one(boards, board_id) = None
              THEN Reject(r, op, board_id, 0, NotFound("Board not found"))
              ELSE [req EXCEPT ![r] = Begin(r, op, board_id, 0,
                                            find_one(boards, board_id))]

\* the existence check every handler on a task starts with
task_find(r, op, task_id) ==
    /\ req[r].pc = "idle"
    /\ req' = IF find_one(tasks, task_id) = None
              THEN Reject(r, op, 0, task_id, NotFound("Task not found"))
              ELSE [req EXCEPT ![r] = Begin(r, op, 0, task_id,
                                            find_one(tasks, task_id))]

At(r, op, pc) == req[r].op = op /\ req[r].pc = pc

\* PUT /boards/{board_id}: find_one
update_board_find(r, board_id) ==
    /\ board_find(r, "update_board", board_id)
    /\ UNCHANGED <<boards, tasks, clock, next_board, next_task, last_writer>>

\* update_data is built and the clock is read
update_board_build(r, board_update) ==
    /\ At(r, "update_board", "found")
    /\ req' = [req EXCEPT ![r].pc = "built", ![r].arg = board_update,
                          ![r].update_data = UpdateData(board_update, Datetime(clock))]
    /\ UNCHANGED <<boards, tasks, clock, next_board, next_task, last_writer>>

\* update_one
update_board_write(r) ==
    /\ At(r, "update_board", "built")
    /\ boards' = update_one(boards, req[r].board_id, req[r].update_data)
    /\ req' = [req EXCEPT ![r].pc = "written",
                          ![r].matched = matched_count(boards, req[r].board_id)]
    /\ last_writer' = [last_writer EXCEPT !.boards[req[r].board_id] = r]
    /\ UNCHANGED <<tasks, clock, next_board, next_task>>

\* find_one again, and the response
update_board_reread(r) ==
    /\ At(r, "update_board", "written")
    /\ req' = Reply(r, ModelResponse(find_one(boards, req[r].board_id)))
    /\ UNCHANGED <<boards, tasks, clock, next_board, next_task, last_writer>>

\* DELETE /boards/{board_id}: find_one
delete_board_find(r, board_id) ==
    /\ board_find(r, "delete_board", board_id)
    /\ UNCHANGED <<boards, tasks, clock, next_board, next_task, last_writer>>

\* the two deletions in the other order: the board goes first
delete_board_tasks_swapped(r) ==
    /\ req[r].op = "delete_board" /\ req[r].pc = "found"
    /\ boards' = delete_one(boards, req[r].board_id)
    /\ req' = [req EXCEPT ![r].pc = "tasks_deleted"]
    /\ UNCHANGED <<tasks, clock, next_board, next_task, last_writer>>

\* delete_many on the tasks of the board
delete_board_tasks(r) ==
    /\ At(r, "delete_board", "found")
    /\ tasks' = delete_many(tasks, [board_id |-> req[r].board_id])
    /\ req' = [req EXCEPT ![r].pc = "tasks_deleted",
                          ![r].deleted = {t.id : t \in tasks \ tasks'}]
    /\ UNCHANGED <<boards, clock, next_board, next_task, last_writer>>

\* delete_one on the board, and the response
delete_board_board(r) ==
    /\ At(r, "delete_board", "tasks_deleted")
    /\ boards' = delete_one(boards, req[r].board_id)
    /\ req' = Reply(r, Ok([message |-> "Board deleted successfully"]))
    /\ UNCHANGED <<tasks, clock, next_board, next_task, last_writer>>

\* the handler fails between the two calls (the second call raises before
\* it reaches the store): nothing is caught and nothing is rolled back
delete_board_fail(r) ==
    /\ At(r, "delete_board", "tasks_deleted")
    /\ req' = Reply(r, ServerError)
    /\ UNCHANGED <<boards, tasks, clock, next_board, next_task, last_writer>>

\* ------------------------------------------------------------- task routes
\* GET /boards/{board_id}/tasks: find_one on the board
get_board_tasks_find(r, board_id) ==
    /\ board_find(r, "get_board_tasks", board_id)
    /\ UNCHANGED <<boards, tasks, clock, next_board, next_task, last_writer>>

\* the filter is built and find().to_list runs on the tasks
get_board_tasks_list(r, priority, column) ==
    /\ At(r, "get_board_tasks", "found")
    /\ LET found == find(tasks, FilterQuery(req[r].board_id, priority, column)) IN
        req' = [req EXCEPT ![r].pc = "done",
                           ![r].arg = [priority |-> priority, column |-> column],
                           ![r].resp = Ok({parse_from_mongo(t) : t \in found})]
    /\ UNCHANGED <<boards, tasks, clock, next_board, next_task, last_writer>>

\* create_task requests past their existence check
Creating == {q \in Requests : At(q, "create_task", "found")}

\* POST /boards/{board_id}/tasks: find_one on the board
create_task_find(r, board_id) ==
    /\ next_task + Cardinality(Creating) <= MaxTasks
    /\ board_find(r, "create_task", board_id)
    /\ UNCHANGED <<boards, tasks, clock, next_board, next_task, last_writer>>

\* the Task is built and insert_one runs
create_task_insert(r, task_data) ==
    /\ At(r, "create_task", "found")
    /\ LET task == NewTask(req[r].board_id, task_data, next_task, Datetime(clock)) IN
        /\ tasks' = insert_one(tasks, prepare_for_mongo(task))
        /\ req' = [req EXCEPT ![r].pc = "done", ![r].task_id = next_task,
                              ![r].resp = Ok(task)]
    /\ next_task' = next_task + 1
    /\ UNCHANGED <<boards, clock, next_board, last_writer>>

\* the response get_task gives in the current store
get_task_response(task_id) ==
    IF find_one(tasks, task_id) = None THEN NotFound("Task not found")
    ELSE Ok(parse_from_mongo(find_one(tasks, task_id)))

\* GET /tasks/{task_id}
get_task(r, task_id) ==
    /\ req[r].pc = "idle"
    /\ req' = Reject(r, "get_task", 0, task_id, get_task_response(task_id))
    /\ UNCHANGED <<boards, tasks, clock, next_board, next_task, last_writer>>

\* PUT /tasks/{task_id}: find_one
update_task_find(r, task_id) ==
    /\ task_find(r, "update_task", task_id)
    /\ UNCHANGED <<boards, tasks, clock, next_board, next_task, last_writer>>

\* update_data is built and the clock is read
update_task_build(r, task_update) ==
    /\ At(r, "update_task", "found")
    /\ req' = [req EXCEPT ![r].pc = "built", ![r].arg = task_update,
                          ![r].update_data = UpdateData(task_update, Datetime(clock))]
    /\ UNCHANGED <<boards, tasks, clock, next_board, next_task, last_writer>>

\* a write that is dropped when the task changed since the existence check
task_write_if_unchanged(r, op) ==
    /\ req[r].op = op /\ req[r].pc = "built"
    /\ tasks' = IF find_one(tasks, req[r].task_id) = req[r].found
                THEN update_one(tasks, req[r].task_id, req[r].update_data)
                ELSE tasks
    /\ req' = [req EXCEPT ![r].pc = "written",
                          ![r].matched = matched_count(tasks, req[r].task_id)]
    /\ last_writer' = [last_writer EXCEPT !.tasks[req[r].task_id] = r]
    /\ UNCHANGED <<boards, clock, next_board, next_task>>

\* update_one on the task: of update_task and of move_task
task_write(r, op) ==
    /\ At(r, op, "built")
    /\ tasks' = update_one(tasks, req[r].task_id, req[r].update_data)
    /\ req' = [req EXCEPT ![r].pc = "written",
                          ![r].matched = matched_count(tasks, req[r].task_id)]
    /\ last_writer' = [last_writer EXCEPT !.tasks[req[r].task_id] = r]
    /\ UNCHANGED <<boards, clock, next_board, next_task>>

\* find_one again, and the response: of update_task and of move_task
task_reread(r, op) ==
    /\ At(r, op, "written")
    /\ req' = Reply(r, ModelResponse(find_one(tasks, req[r].task_id)))
    /\ UNCHANGED <<boards, tasks, clock, next_board, next_task, last_writer>>

update_task_write(r) == task_write(r, "update_task")

update_task_reread(r) == task_reread(r, "update_task")

\* PATCH /tasks/{task_id}/move: find_one
move_task_find(r, task_id) ==
    /\ task_find(r, "move_task", task_id)
    /\ UNCHANGED <<boards, tasks, clock, next_board, next_task, last_writer>>

\* a move with a transition guard: a task that is done stays done
move_task_build_guarded(r, move_data) ==
    /\ req[r].op = "move_task" /\ req[r].pc = "found"
    /\ req' = [req EXCEPT ![r].pc = "built", ![r].arg = move_data,
            ![r].update_data =
                IF req[r].found.column = "done"
                THEN prepare_for_mongo([updated_at |-> Datetime(clock)])
                ELSE MoveData(move_data, Datetime(clock))]
    /\ UNCHANGED <<boards, tasks, clock, next_board, next_task, last_writer>>

\* update_data is built and the clock is read
move_task_build(r, move_data) ==
    /\ At(r, "move_task", "found")
    /\ req' = [req EXCEPT ![r].pc = "built", ![r].arg = move_data,
                          ![r].update_data = MoveData(move_data, Datetime(clock))]
    /\ UNCHANGED <<boards, tasks, clock, next_board, next_task, last_writer>>

move_task_write(r) == task_write(r, "move_task")

move_task_reread(r) == task_reread(r, "move_task")

\* DELETE /tasks/{task_id}: find_one
delete_task_find(r, task_id) ==
    /\ task_find(r, "delete_task", task_id)
    /\ UNCHANGED <<boards, tasks, clock, next_board, next_task, last_writer>>

\* delete_one, and the response
delete_task_delete(r) ==
    /\ At(r, "delete_task", "found")
    /\ tasks' = delete_one(tasks, req[r].task_id)
    /\ req' = Reply(r, Ok([message |-> "Task deleted successfully"]))
    /\ UNCHANGED <<boards, clock, next_board, next_task, last_writer>>

\* ------------------------------------------------------------------ inputs
Optional(S) == {None} \cup {Some(v) : v \in S}

\* BoardCreate bodies
BoardCreates == [name : {"n1"}, description : {""}]

\* BoardUpdate bodies
BoardUpdates == [name : Optional({"n1", "n2"}), description : Optional({"d1"})]

\* TaskCreate bodies
TaskCreates ==
    [title : {"t1"}, description : {""}, priority : TaskPriority, due_date : {None}]

\* the TaskCreate body with every default
TaskCreatesDefault ==
    [title : {"t1"}, description : {""}, priority : {"medium"}, due_date : {None}]

\* TaskUpdate bodies: every combination of supplied fields
TaskUpdates ==
    [title : Optional({"t2"}), description : Optional({"d1"}),
     priority : Optional({"high"}), column : Optional({"done"}),
     due_date : Optional({Datetime(1)})]

\* TaskUpdate bodies of racing requests: a title, a column, both or neither
TaskUpdatesRace ==
    [title : Optional({"t2"}), description : {None}, priority : {None},
     column : Optional({"todo", "done"}), due_date : {None}]

\* BoardUpdate bodies of racing requests: a name
BoardUpdatesRace == [name : {Some("n1"), Some("n2")}, description : {None}]

\* one body of each kind
TaskUpdatesOne ==
    [title : {Some("t2")}, description : {None}, priority : {None},
     column : {None}, due_date : {None}]

BoardUpdatesOne == [name : {Some("n2")}, description : {None}]

TaskMovesOne == [column : {"in_progress"}]

\* TaskMove bodies
TaskMoves == [column : TaskColumn]

\* ---------------------------------------------------------- specifications
\* Boards and tasks come and go; every persistence call of every request
\* interleaves with the others'.
Next ==
    \E r \in Requests :
        \/ \E d \in BoardCreates : create_board(r, d)
        \/ \E b \in BoardIds : get_board(r, b)
        \/ \E b \in BoardIds : delete_board_find(r, b)
        \/ delete_board_tasks(r)
        \/ delete_board_board(r)
        \/ delete_board_fail(r)
        \/ \E b \in BoardIds : create_task_find(r, b)
        \/ \E d \in TaskCreates : create_task_insert(r, d)
        \/ \E t \in TaskIds : get_task(r, t)
        \/ \E t \in TaskIds : delete_task_find(r, t)
        \/ delete_task_delete(r)
        \/ Finish(r)

Spec == Init /\ [][Next]_vars

\* One request at a time: a request starts when no other is in flight or
\* unanswered.  Boards and tasks come and go, tasks move, tasks are listed.
Alone(r) == \A q \in Requests \ {r} : req[q].pc = "idle"

NextSeq ==
    \E r \in Requests :
        \/ Alone(r) /\ \E d \in BoardCreates : create_board(r, d)
        \/ Alone(r) /\ \E b \in BoardIds : get_board(r, b)
        \/ Alone(r) /\ \E b \in BoardIds : delete_board_find(r, b)
        \/ delete_board_tasks(r)
        \/ delete_board_board(r)
        \/ delete_board_fail(r)
        \/ Alone(r) /\ \E b \in BoardIds : get_board_tasks_find(r, b)
        \/ \E p \in Optional(TaskPriority), c \in Optional(TaskColumn) :
                get_board_tasks_list(r, p, c)
        \/ Alone(r) /\ \E b \in BoardIds : create_task_find(r, b)
        \/ \E d \in TaskCreates : create_task_insert(r, d)
        \/ Alone(r) /\ \E t \in TaskIds : get_task(r, t)
        \/ Alone(r) /\ \E t \in TaskIds : move_task_find(r, t)
        \/ \E d \in TaskMoves : move_task_build(r, d)
        \/ move_task_write(r)
        \/ move_task_reread(r)
        \/ Alone(r) /\ \E t \in TaskIds : delete_task_find(r, t)
        \/ delete_task_delete(r)
        \/ Finish(r)

SpecSeq == Init /\ [][NextSeq]_vars

\* Updates, moves and deletions of one task, and updates of its board, race
\* each other; every persistence call of every request interleaves with the
\* others'.
NextUpdate ==
    \E r \in Requests :
        \/ next_board = 1 /\ \E d \in BoardCreates : create_board(r, d)
        \/ next_task = 1 /\ Creating = {} /\ \E b \in BoardIds : create_task_find(r, b)
        \/ \E d \in TaskCreatesDefault : create_task_insert(r, d)
        \/ \E b \in BoardIds : update_board_find(r, b)
        \/ \E d \in BoardUpdatesRace : update_board_build(r, d)
        \/ update_board_write(r)
        \/ update_board_reread(r)
        \/ \E t \in TaskIds : update_task_find(r, t)
        \/ \E d \in TaskUpdatesRace : update_task_build(r, d)
        \/ update_task_write(r)
        \/ update_task_reread(r)
        \/ \E t \in TaskIds : move_task_find(r, t)
        \/ \E d \in TaskMoves : move_task_build(r, d)
        \/ move_task_write(r)
        \/ move_task_reread(r)
        \/ \E t \in TaskIds : delete_task_find(r, t)
        \/ delete_task_delete(r)
        \/ Finish(r)

SpecUpdate == Init /\ [][NextUpdate]_vars

\* Moves and updates of one task, and updates of its board, race each other
\* while time passes.
NextClock ==
    \/ Tick
    \/ \E r \in Requests :
        \/ next_board = 1 /\ \E d \in BoardCreates : create_board(r, d)
        \/ next_task = 1 /\ Creating = {} /\ \E b \in BoardIds : create_task_find(r, b)
        \/ \E d \in TaskCreatesDefault : create_task_insert(r, d)
        \/ \E b \in BoardIds : update_board_find(r, b)
        \/ \E d \in BoardUpdatesOne : update_board_build(r, d)
        \/ update_board_write(r)
        \/ update_board_reread(r)
        \/ \E t \in TaskIds : update_task_find(r, t)
        \/ \E d \in TaskUpdatesOne : update_task_build(r, d)
        \/ update_task_write(r)
        \/ update_task_reread(r)
        \/ \E t \in TaskIds : move_task_find(r, t)
        \/ \E d \in TaskMovesOne : move_task_build(r, d)
        \/ move_task_write(r)
        \/ move_task_reread(r)
        \/ Finish(r)

SpecClock == Init /\ [][NextClock]_vars

\* One request at a time while time passes: the board is updated with every
\* combination of fields, or a task is created and then updated with every
\* combination of fields and moved.
NextFrame ==
    \/ Tick
    \/ \E r \in Requests :
        \/ Alone(r) /\ next_board = 1 /\ \E d \in BoardCreates : create_board(r, d)
        \/ Alone(r) /\ next_task = 1 /\ (\A b \in BoardIds : last_writer.boards[b] = 0)
                    /\ \E b \in BoardIds : create_task_find(r, b)
        \/ \E d \in TaskCreatesDefault : create_task_insert(r, d)
        \/ Alone(r) /\ next_task = 1 /\ \E b \in BoardIds : update_board_find(r, b)
        \/ \E d \in BoardUpdates : update_board_build(r, d)
        \/ update_board_write(r)
        \/ update_board_reread(r)
        \/ Alone(r) /\ \E t \in TaskIds : update_task_find(r, t)
        \/ \E d \in TaskUpdates : update_task_build(r, d)
        \/ update_task_write(r)
        \/ update_task_reread(r)
        \/ Alone(r) /\ \E t \in TaskIds : move_task_find(r, t)
        \/ \E d \in TaskMovesOne : move_task_build(r, d)
        \/ move_task_write(r)
        \/ move_task_reread(r)
        \/ Finish(r)

SpecFrame == Init /\ [][NextFrame]_vars

\* Updates and moves that have passed their existence check race the
\* deletion of the task, of the board and of its tasks; one board is created,
\* and a task when none is stored.
NextStale ==
    \E r \in Requests :
        \/ next_board = 1 /\ \E d \in BoardCreates : create_board(r, d)
        \/ tasks = {} /\ Creating = {} /\ \E b \in BoardIds : create_task_find(r, b)
        \/ \E d \in TaskCreatesDefault : create_task_insert(r, d)
        \/ \E b \in BoardIds : update_board_find(r, b)
        \/ \E d \in BoardUpdatesOne : update_board_build(r, d)
        \/ update_board_write(r)
        \/ update_board_reread(r)
        \/ \E b \in BoardIds : delete_board_find(r, b)
        \/ delete_board_tasks(r)
        \/ delete_board_board(r)
        \/ \E t \in TaskIds : update_task_find(r, t)
        \/ \E d \in TaskUpdatesOne : update_task_build(r, d)
        \/ update_task_write(r)
        \/ update_task_reread(r)
        \/ \E t \in TaskIds : move_task_find(r, t)
        \/ \E d \in TaskMovesOne : move_task_build(r, d)
        \/ move_task_write(r)
        \/ move_task_reread(r)
        \/ \E t \in TaskIds : delete_task_find(r, t)
        \/ delete_task_delete(r)
        \/ Finish(r)

SpecStale == Init /\ [][NextStale]_vars

\* ------------------------------------------------------------------ claims
Done(r, op) == req[r].op = op /\ req[r].pc = "done"

BoardExists(board_id) == \E b \in boards : b.id = board_id

TasksOf(board_id) == {t \in tasks : t.board_id = board_id}

Orphans == {t \in tasks : ~BoardExists(t.board_id)}

\* C1: once delete_board(B) has answered 200, no stored task has board_id B,
\* get_board(B) answers 404, and get_task answers 404 for every task the
\* cascade removed (requests handled one at a time).
C1_DeleteBoardCascades ==
    \A r \in Requests :
        (Done(r, "delete_board") /\ req[r].resp.status = 200) =>
            /\ TasksOf(req[r].board_id) = {}
            /\ get_board_response(req[r].board_id).status = 404
            /\ \A t \in req[r].deleted : get_task_response(t).status = 404

\* a board with two tasks has been deleted
C1_Witness ==
    \E r \in Requests :
        /\ Done(r, "delete_board") /\ req[r].resp.status = 200
        /\ Cardinality(req[r].deleted) = 2

\* C2: whenever no request is in flight, every stored task's board_id is the
\* id of a stored board.
C2_ReferentialIntegrity ==
    (\A r \in Requests : ~InFlight(r)) => Orphans = {}

\* C3: create_task on a board id that find_one does not find answers 404 in
\* that step and leaves the task collection as it was.
C3_CreateTaskUnknownBoard ==
    [][\A r \in Requests, b \in BoardIds :
        (/\ req[r].pc = "idle"
         /\ req'[r].op = "create_task" /\ req'[r].board_id = b
         /\ ~BoardExists(b))
        => (/\ req'[r].pc = "done"
            /\ req'[r].resp = NotFound("Board not found")
            /\ tasks' = tasks)]_vars

\* create_task has answered 404 while tasks are stored
C3_Witness ==
    \E r \in Requests :
        /\ Done(r, "create_task") /\ req[r].resp.status = 404
        /\ tasks # {}

FailedBetween(r) == Done(r, "delete_board") /\ req[r].resp.status = 500

\* C4 as stated: a delete_board(B) that failed between its two calls leaves
\* orphan tasks, and not board B with none of its tasks.
C4_FailureLeavesOrphans ==
    \A r \in Requests :
        FailedBetween(r) =>
            /\ Orphans # {}
            /\ ~(BoardExists(req[r].board_id) /\ TasksOf(req[r].board_id) = {})

\* C4 as amended: a delete_board(B) that failed between its two calls, with
\* no other request interleaved, leaves board B stored with none of its
\* tasks, and no orphan task.
C4_FailureLeavesEmptyBoard ==
    \A r \in Requests :
        FailedBetween(r) =>
            /\ BoardExists(req[r].board_id)
            /\ TasksOf(req[r].board_id) = {}
            /\ Orphans = {}

\* delete_board failed after its delete_many had removed tasks
C4_Witness ==
    \E r \in Requests : FailedBetween(r) /\ req[r].deleted # {}

\* the tasks get_board_tasks(B, priority, column) is to return
Listed(board_id, priority, column) ==
    {t \in tasks :
        /\ t.board_id = board_id
        /\ priority # None => t.priority = priority[1]
        /\ column # None => t.column = column[1]}

\* C5: get_board_tasks on an existing board answers 200 with exactly the
\* stored tasks of that board that match every filter supplied; on a
\* missing board it answers 404.
C5_ListExactlyMatching ==
    \A r \in Requests :
        Done(r, "get_board_tasks") =>
            IF BoardExists(req[r].board_id)
            THEN /\ req[r].resp.status = 200
                 /\ req[r].resp.body =
                        {parse_from_mongo(t) :
                            t \in Listed(req[r].board_id, req[r].arg.priority,
                                         req[r].arg.column)}
            ELSE req[r].resp.status = 404

\* both filters were supplied, one task was returned and another stored task
\* was left out
C5_Witness ==
    \E r \in Requests :
        /\ Done(r, "get_board_tasks") /\ req[r].resp.status = 200
        /\ req[r].arg.priority # None /\ req[r].arg.column # None
        /\ Cardinality(req[r].resp.body) = 1
        /\ Cardinality(tasks) = 2

\* C6: move_task on an existing task answers 200 whatever the current and
\* the target column, and the task then reads back with the target column.
C6_MoveUnguarded ==
    \A r \in Requests :
        Done(r, "move_task") =>
            IF find_one(tasks, req[r].task_id) = None
            THEN req[r].resp.status = 404
            ELSE /\ req[r].resp.status = 200
                 /\ req[r].resp.body.column = req[r].arg.column
                 /\ get_task_response(req[r].task_id).status = 200
                 /\ get_task_response(req[r].task_id).body.column = req[r].arg.column

\* a task that was done has been moved back to todo
C6_Witness ==
    \E r \in Requests :
        /\ Done(r, "move_task") /\ req[r].resp.status = 200
        /\ req[r].found.column = "done" /\ req[r].arg.column = "todo"
        /\ req[r].resp.body.column = "todo"

\* the fields a partial-update body supplies
Supplied(body) == {k \in DOMAIN body : body[k] # None}

\* a supplied value as the store holds it
Stored(k, v) == IF k \in TimestampKeys THEN isoformat(v) ELSE v

\* the document after an update with this body, stamped with this time
Updated(old, body, stamp) ==
    [k \in DOMAIN old |->
        IF k = "updated_at" THEN stamp
        ELSE IF k \in Supplied(body) THEN Stored(k, body[k][1])
        ELSE old[k]]

Writes(r, op) == req[r].op = op /\ req[r].pc = "built" /\ req'[r].pc = "written"

\* C7: the update_one of update_board or update_task changes, in the
\* targeted record, exactly the supplied non-null fields and updated_at; a
\* move changes column and updated_at; id, created_at and board_id stay.
C7_UpdateFrame ==
    [][\A r \in Requests :
        /\ (Writes(r, "update_board") /\ BoardExists(req[r].board_id)) =>
            LET old == find_one(boards, req[r].board_id)
                new == find_one(boards', req[r].board_id) IN
                /\ new = Updated(old, req[r].arg, req[r].update_data.updated_at)
                /\ new.id = old.id /\ new.created_at = old.created_at
                /\ boards' \ {new} = boards \ {old}
        /\ (Writes(r, "update_task") /\ find_one(tasks, req[r].task_id) # None) =>
            LET old == find_one(tasks, req[r].task_id)
                new == find_one(tasks', req[r].task_id) IN
                /\ new = Updated(old, req[r].arg, req[r].update_data.updated_at)
                /\ new.id = old.id /\ new.created_at = old.created_at
                /\ new.board_id = old.board_id
        /\ (Writes(r, "move_task") /\ find_one(tasks, req[r].task_id) # None) =>
            LET old == find_one(tasks, req[r].task_id)
                new == find_one(tasks', req[r].task_id) IN
                /\ new = [old EXCEPT !.column = req[r].arg.column,
                                     !.updated_at = req[r].update_data.updated_at]
                /\ new.id = old.id /\ new.created_at = old.created_at
                /\ new.board_id = old.board_id
      ]_vars

\* an update that supplied only description has been written: the title is
\* the one the task was created with, and updated_at has moved
C7_Witness ==
    \E r \in Requests :
        /\ req[r].op = "update_task" /\ req[r].pc = "written"
        /\ Supplied(req[r].arg) = {"description"}
        /\ LET t == find_one(tasks, req[r].task_id) IN
            /\ t # None
            /\ t.description = "d1" /\ t.title = "t1"
            /\ t.updated_at # t.created_at

\* C8: no step lowers the stored updated_at of a board or of a task.
C8_UpdatedAtMonotone ==
    [][/\ \A t \in tasks : \A u \in tasks' :
            u.id = t.id => u.updated_at.iso >= t.updated_at.iso
       /\ \A b \in boards : \A c \in boards' :
            c.id = b.id => c.updated_at.iso >= b.updated_at.iso
      ]_vars

\* C9: every answered move_task(T, c) answered 404, or 200 with a task whose
\* column is c.
C9_MoveOutcome ==
    \A r \in Requests :
        Done(r, "move_task") =>
            \/ req[r].resp.status = 404
            \/ /\ req[r].resp.status = 200
               /\ req[r].resp.body.column = req[r].arg.column

\* request r's update_one was the last to run on the document, which is stored
WroteLast(r, op, writer, doc) ==
    /\ req[r].op = op /\ req[r].pc \in {"written", "done"}
    /\ req[r].arg # None
    /\ writer = r
    /\ doc # None

\* C10: the fields supplied by the update request whose update_one ran last
\* on a stored task or board hold that request's values, whatever other
\* requests read or wrote before.
C10_LaterWriteWins ==
    \A r \in Requests :
        /\ WroteLast(r, "update_task", last_writer.tasks[req[r].task_id],
                     find_one(tasks, req[r].task_id)) =>
            \A k \in Supplied(req[r].arg) :
                find_one(tasks, req[r].task_id)[k] = Stored(k, req[r].arg[k][1])
        /\ WroteLast(r, "update_board", last_writer.boards[req[r].board_id],
                     find_one(boards, req[r].board_id)) =>
            \A k \in Supplied(req[r].arg) :
                find_one(boards, req[r].board_id)[k] = Stored(k, req[r].arg[k][1])

\* two updates of one task that read different documents have both written
\* a column, each its own: the stored column is that of the later write
C10_Witness ==
    \E r1, r2 \in Requests :
        /\ r1 # r2
        /\ req[r1].op = "update_task" /\ req[r1].pc = "written"
        /\ req[r2].op = "update_task" /\ req[r2].pc = "written"
        /\ req[r1].task_id = req[r2].task_id
        /\ req[r1].found # req[r2].found
        /\ req[r1].arg.column # None /\ req[r2].arg.column # None
        /\ req[r1].arg.column # req[r2].arg.column
        /\ last_writer.tasks[req[r1].task_id] = r1
        /\ find_one(tasks, req[r1].task_id) # None
        /\ find_one(tasks, req[r1].task_id).column = req[r1].arg.column[1]

\* the ids stored in a collection
Ids(coll) == {d.id : d \in coll}

\* request r runs its update_one on a document that is not stored
StaleWrite(r) ==
    /\ req[r].pc = "built" /\ req'[r].pc = "written"
    /\ \/ req[r].op \in {"update_task", "move_task"}
          /\ req[r].task_id \notin Ids(tasks)
       \/ req[r].op = "update_board" /\ req[r].board_id \notin Ids(boards)

\* C11: the update_one of an update_task, move_task or update_board whose
\* record has been deleted since its existence check leaves the store as it
\* is; an id enters a collection only by a create, which uses an id never
\* handed out before, so an id that has left the store does not come back.
C11_NoResurrection ==
    [][/\ \A r \in Requests : StaleWrite(r) => (tasks' = tasks /\ boards' = boards)
       /\ \A t \in Ids(tasks') \ Ids(tasks) :
            /\ t = next_task /\ next_task' = next_task + 1
            /\ \E r \in Requests : At(r, "create_task", "found") /\ req'[r].pc = "done"
       /\ \A b \in Ids(boards') \ Ids(boards) :
            /\ b = next_board /\ next_board' = next_board + 1
            /\ \E r \in Requests : req[r].pc = "idle" /\ req'[r].op = "create_board"
       /\ next_task' >= next_task /\ next_board' >= next_board
       /\ \A t \in Ids(tasks') : t < next_task'
       /\ \A b \in Ids(boards') : b < next_board'
      ]_vars

\* an update_task that found task 1 has run its update_one after the task
\* was deleted (nothing matched), task 1 is not stored, and a task created
\* since is stored under another id
C11_Witness ==
    \E r \in Requests :
        /\ req[r].op = "update_task" /\ req[r].pc = "written"
        /\ req[r].found # None /\ req[r].matched = 0
        /\ req[r].task_id \notin Ids(tasks)
        /\ tasks # {}

\* request r takes the step from one position of its handler to another
Steps(r, op, from, to) == At(r, op, from) /\ req'[r].pc = to

\* C12: the delete_one of delete_task(T) removes task T and nothing else; the
\* delete_many of delete_board(B) removes the tasks whose board_id is B and
\* nothing else, and its delete_one removes board B and nothing else; every
\* other document stays stored as it is, and no other step of a delete
\* changes the store.
C12_DeleteFrame ==
    [][\A r \in Requests :
        /\ Steps(r, "delete_task", "found", "done") =>
            /\ tasks' = {t \in tasks : t.id # req[r].task_id}
            /\ boards' = boards
        /\ Steps(r, "delete_board", "found", "tasks_deleted") =>
            /\ tasks' = {t \in tasks : t.board_id # req[r].board_id}
            /\ boards' = boards
        /\ Steps(r, "delete_board", "tasks_deleted", "done") =>
            /\ boards' \in {boards, {b \in boards : b.id # req[r].board_id}}
            /\ req'[r].resp.status = 200 =>
                    boards' = {b \in boards : b.id # req[r].board_id}
            /\ tasks' = tasks
        /\ (req[r].pc = "idle" /\ req'[r].op \in {"delete_task", "delete_board"}) =>
            (tasks' = tasks /\ boards' = boards)
      ]_vars

\* delete_board has removed a board and its task while another board and
\* that board's task are stored
C12_Witness ==
    \E r \in Requests :
        /\ Done(r, "delete_board") /\ req[r].resp.status = 200
        /\ req[r].deleted # {}
        /\ \E b \in boards, t \in tasks :
            b.id # req[r].board_id /\ t.board_id = b.id

====
